---- MODULE Spec2Model ----
(***************************************************************************)
(* A model of the CHIP-8 interpreter of src/src/cpu.rs: the CPU struct,    *)
(* take_rom, reset and run_next, with the memory bus, the call stack, the  *)
(* display with its fade phase and the 60 Hz timers.                       *)
(*                                                                         *)
(* A Vec<T> is the record [len, fill, at]: its length, the value of its    *)
(* last element, and the elements that differ from that value, by index.   *)
(* Every vector has exactly one such record (VecGet reads it back), and a  *)
(* vector of thousands of equal elements is a small value.                 *)
(* The framebuffer, a Vec<u8>, is held as the vector of its 4-byte groups.  *)
(* An f32 phase is the integer phase * 2^27 (every value the code computes *)
(* is a multiple of 2^-27), with the sum rounded as IEEE-754 single does.  *)
(***************************************************************************)
EXTENDS Integers, Sequences, FiniteSets, TLC

\* ------------------------------------------------------------------ bounds

\* run_next calls the model follows after a reset (or after construction)
MaxSteps == 6

\* the same for the one program that is followed through a whole fade
MaxFadeSteps == 13

\* the same for the one program that calls itself: the depth of 128 calls
MaxCallSteps == 128

\* ------------------------------------------------------- program constants

RAM_SIZE == 4096
ROM_BASE == 512
ADDRESS_MASK == 4095
STACK_BASE == 256
SCREEN_WIDTH == 64
SCREEN_HEIGHT == 32
HIRES_HEIGHT == 64
TIMER_PERIOD == 16666666
FONT_GLYPH_SIZE == 5
RGBA == 4
\* 0.1f32 = 0x3DCCCCCD = 13421773 * 2^-27
PHASE_TICK == 13421773
\* 1.0f32 in units of 2^-27
PHASE_ONE == 134217728

U8 == 0..255
Pow2(k) == 2 ^ k

\* ----------------------------------------------------------- bit operations

Bit(a, k) == (a \div Pow2(k)) % 2

\* f is the truth table of the operation, f[bit of a + 1][bit of b + 1]
RECURSIVE BitwiseFrom(_, _, _, _)
BitwiseFrom(f, a, b, k) ==
  IF k > 15 THEN 0
  ELSE f[Bit(a, k) + 1][Bit(b, k) + 1] * Pow2(k) + BitwiseFrom(f, a, b, k + 1)

BitAnd(a, b) == BitwiseFrom(<<<<0, 0>>, <<0, 1>>>>, a, b, 0)
BitOr(a, b) == BitwiseFrom(<<<<0, 1>>, <<1, 1>>>>, a, b, 0)
BitXor(a, b) == BitwiseFrom(<<<<0, 1>>, <<1, 0>>>>, a, b, 0)

\* -------------------------------------------------------------- Vec<T>

\* Vec::new()
VecEmpty == [len |-> 0, fill |-> 0, at |-> <<>>]

\* s[k], for k < s.len
VecGet(s, k) == IF k \in DOMAIN s.at THEN s.at[k] ELSE s.fill

\* the vector whose element k is seq[k + 1]
VecFromSeq(seq) ==
  IF Len(seq) = 0 THEN VecEmpty
  ELSE [len |-> Len(seq),
        fill |-> seq[Len(seq)],
        at |-> [k \in {j \in 0..(Len(seq) - 2) : seq[j + 1] # seq[Len(seq)]} |->
                  seq[k + 1]]]

\* the elements of s as a sequence
VecToSeq(s) == [k \in 1..s.len |-> VecGet(s, k - 1)]

\* s[k] = x, for k < s.len
VecSet(s, k, x) ==
  IF k = s.len - 1
  THEN VecFromSeq([VecToSeq(s) EXCEPT ![k + 1] = x])
  ELSE IF x = s.fill
  THEN [s EXCEPT !.at = [j \in DOMAIN s.at \ {k} |-> s.at[j]]]
  ELSE [s EXCEPT !.at = [j \in DOMAIN s.at \cup {k} |-> IF j = k THEN x ELSE s.at[j]]]

\* s[k] = seq[k + 1] for every k < Len(seq), for Len(seq) < s.len
VecPatch(s, seq) ==
  LET n == Len(seq)
      keep == {j \in DOMAIN s.at : j >= n} \cup {j \in 0..(n - 1) : seq[j + 1] # s.fill}
  IN  [s EXCEPT !.at = [k \in keep |-> IF k < n THEN seq[k + 1] ELSE s.at[k]]]

\* Vec::resize
VecResize(s, n, x) ==
  IF n > s.len
  THEN [len |-> n, fill |-> x,
        at |-> [k \in {j \in 0..(s.len - 1) : VecGet(s, j) # x} |-> VecGet(s, k)]]
  ELSE VecFromSeq(SubSeq(VecToSeq(s), 1, n))

\* Vec::append, of the bytes of a sequence
VecAppend(s, bytes) == VecFromSeq(VecToSeq(s) \o bytes)

\* ------------------------------------------------------------- Opcode

\* Opcode::unpack
unpack(hi, lo) == <<hi \div 16, hi % 16, lo \div 16, lo % 16>>

\* Opcode::as_u12
as_u12(hi, lo) == BitOr(lo, (hi % 16) * 256)

\* Opcode::as_u8
as_u8(hi, lo) == lo

\* ------------------------------------------------------------- the machine

\* the CPU struct's fields
VARIABLES ram, screen, framebuffer, v, i, pc, sp, timer_elapsed,
          timer_instant, dt, st

\* the environment: the ROM file the host inserts, whether the build checks
\* integer overflow (a debug build panics, a release build wraps), and the
\* durations the host clock can measure between two steps
VARIABLES rom, overflow_checks, clock

\* observation: the panic that ended the run, the ram indices the last call
\* used, the state before the last call, the calls made so far, the number
\* of run_next calls since the last reset, the nanoseconds the clock has
\* measured and the timer updates that ticked since the last reset, and
\* the number of run_next calls the host makes for one frame
VARIABLES fault, bus, last, called, steps, timing, budget

vars == <<ram, screen, framebuffer, v, i, pc, sp, timer_elapsed,
          timer_instant, dt, st, rom, overflow_checks, clock, fault, bus,
          last, called, steps, timing, budget>>

NoFault == [kind |-> "none", msg |-> <<>>]

\* Pixel::default()
DefaultPixel == [lit |-> FALSE, phase |-> 0]

\* The CPU as a record, so that a handler is a composition of its statements.
Cur ==
  [ram |-> ram, screen |-> screen, framebuffer |-> framebuffer, v |-> v,
   i |-> i, pc |-> pc, sp |-> sp, timer_elapsed |-> timer_elapsed,
   timer_instant |-> timer_instant, dt |-> dt, st |-> st,
   overflow_checks |-> overflow_checks, clock |-> clock,
   fault |-> NoFault, bus |-> {},
   elapsed |-> 0, ticked |-> FALSE, opcode |-> <<>>]

Faulted(m) == m.fault.kind # "none"

\* panic!: the statements after it are not executed
Panic(m, kind, msg) ==
  IF Faulted(m) THEN m ELSE [m EXCEPT !.fault = [kind |-> kind, msg |-> msg]]

\* the primed state is machine m
Becomes(m) ==
  /\ ram' = m.ram
  /\ screen' = m.screen
  /\ framebuffer' = m.framebuffer
  /\ v' = m.v
  /\ i' = m.i
  /\ pc' = m.pc
  /\ sp' = m.sp
  /\ timer_elapsed' = m.timer_elapsed
  /\ timer_instant' = m.timer_instant
  /\ dt' = m.dt
  /\ st' = m.st
  /\ fault' = m.fault
  /\ bus' = m.bus

\* ------------------------------------------------------------- take_rom

\* CPU::take_rom
take_rom(m, bytes) ==
  [m EXCEPT !.ram = VecResize(VecAppend(VecResize(VecEmpty, ROM_BASE, 0), bytes),
                              RAM_SIZE, 0)]

\* ---------------------------------------------------------------- reset

FONT ==
  << 240, 144, 144, 144, 240,    32,  96,  32,  32, 112,
     240,  16, 240, 128, 240,   240,  16, 240,  16, 240,
     144, 144, 240,  16,  16,   240, 128, 240,  16, 240,
     240, 128, 240, 144, 240,   240,  16,  32,  64,  64,
     240, 144, 240, 144, 240,   240, 144, 240,  16, 240,
     240, 144, 240, 144, 144,   224, 144, 224, 144, 224,
     240, 128, 128, 128, 240,   224, 144, 144, 144, 224,
     240, 128, 240, 128, 240,   240, 128, 240, 128, 128 >>

\* self.ram[k] = FONT[k] for k = 0x00 .. 0x4F, in order; the first index
\* outside the vector panics
WriteFont(m) ==
  IF Faulted(m) THEN m
  ELSE IF m.ram.len > Len(FONT)
  THEN [m EXCEPT !.ram = VecPatch(@, FONT)]
  ELSE IF m.ram.len = Len(FONT)
  THEN [m EXCEPT !.ram = VecFromSeq(FONT)]
  ELSE Panic([m EXCEPT !.ram = VecFromSeq(SubSeq(FONT, 1, m.ram.len))],
             "index out of bounds", <<>>)

\* a slip: the timers are left running
ResetRegisters_KeepTimers(m) ==
  [m EXCEPT !.v = [k \in 0..15 |-> 0],
            !.i = 0,
            !.sp = 0,
            !.pc = ROM_BASE,
            !.screen = VecResize(VecEmpty, SCREEN_WIDTH * SCREEN_HEIGHT, DefaultPixel),
            !.framebuffer = VecResize(VecEmpty, (SCREEN_WIDTH * SCREEN_HEIGHT * 3) \div RGBA,
                                      <<0, 0, 0, 0>>),
            !.timer_elapsed = 0,
            !.timer_instant = "None"]

\* the registers, timers and display part of CPU::reset
ResetRegisters(m) ==
  [m EXCEPT !.v = [k \in 0..15 |-> 0],
            !.i = 0,
            !.sp = 0,
            !.pc = ROM_BASE,
            !.dt = 0,
            !.st = 0,
            !.screen = VecResize(VecEmpty, SCREEN_WIDTH * SCREEN_HEIGHT, DefaultPixel),
            !.framebuffer = VecResize(VecEmpty, (SCREEN_WIDTH * SCREEN_HEIGHT * 3) \div RGBA,
                                      <<0, 0, 0, 0>>),
            !.timer_elapsed = 0,
            !.timer_instant = "None"]

\* CPU::reset
reset(m) == WriteFont(ResetRegisters(m))

\* ------------------------------------------------------------ arithmetic

\* a.wrapping_add(b) on u16, and `a + b` on u16 in a build without overflow checks
WrapU16(n) == n % 65536

\* a.wrapping_add(b) / a.wrapping_sub(b) on u8
WrapU8(n) == n % 256

\* `a + b` on u16: panics in a build with overflow checks when the sum does not fit
CheckAddU16(m, a, b) ==
  IF m.overflow_checks /\ a + b > 65535
  THEN Panic(m, "attempt to add with overflow", <<>>)
  ELSE m

\* `a * b` on u8: panics in a build with overflow checks when the product does not fit
CheckMulU8(m, a, b) ==
  IF m.overflow_checks /\ a * b > 255
  THEN Panic(m, "attempt to multiply with overflow", <<>>)
  ELSE m

\* the nearest multiple of u to n, ties to the even multiple
RoundNearestEven(n, u) ==
  LET q == n \div u
      r == n % u
  IN  IF 2 * r < u THEN q * u
      ELSE IF 2 * r > u THEN (q + 1) * u
      ELSE IF q % 2 = 0 THEN q * u ELSE (q + 1) * u

\* n (in units of 2^-27) rounded to an f32: 24 bits of mantissa
F32Round(n) ==
  IF n < Pow2(24) THEN n
  ELSE IF n < Pow2(25) THEN RoundNearestEven(n, 2)
  ELSE IF n < Pow2(26) THEN RoundNearestEven(n, 4)
  ELSE IF n < Pow2(27) THEN RoundNearestEven(n, 8)
  ELSE RoundNearestEven(n, 16)

\* ------------------------------------------------------------ memory bus

\* a slip: one bit too many in the mask, 0x1FFF
Mask_Wide(address) == BitAnd(address, 8191)

\* address & 0xFFF
Mask(address) == BitAnd(address, ADDRESS_MASK)

Access(via, op, raw, idx) == [via |-> via, op |-> op, raw |-> raw, idx |-> idx]

\* self.ram[idx] as a place: the index must be inside the vector
Index(m, via, op, raw, idx) ==
  IF Faulted(m) THEN m
  ELSE IF idx < m.ram.len
  THEN [m EXCEPT !.bus = @ \cup {Access(via, op, raw, idx)}]
  ELSE Panic([m EXCEPT !.bus = @ \cup {Access(via, op, raw, idx)}],
             "index out of bounds", <<>>)

\* CPU::write
write(m, via, address, value) ==
  LET m1 == Index(m, via, "w", address, Mask(address))
  IN  IF Faulted(m1) THEN m1
      ELSE [m1 EXCEPT !.ram = VecSet(@, Mask(address), value)]

\* CPU::read: the machine after the read, and the byte read
read(m, via, address) == Index(m, via, "r", address, Mask(address))

read_value(m, address) ==
  IF Mask(address) < m.ram.len THEN VecGet(m.ram, Mask(address)) ELSE 0

\* CPU::read_next
read_next(m) ==
  LET m1 == read(m, "pc", m.pc)
  IN  IF Faulted(m1) THEN m1 ELSE [m1 EXCEPT !.pc = WrapU16(m.pc + 1)]

\* ------------------------------------------------------------ call stack

\* 0x100u16 + (self.sp as u16) * 2
StackAddress(s) == STACK_BASE + s * 2

\* CPU::push
push(m, value) ==
  LET m1 == [m EXCEPT !.sp = WrapU8(m.sp + 1)]
      address == StackAddress(m1.sp)
      m2 == write(m1, "sp", address, value \div 256)
  IN  write(m2, "sp", address + 1, BitAnd(value, 255))

\* CPU::pop: the value popped
pop_value(m) ==
  LET address == StackAddress(m.sp)
  IN  BitOr(read_value(m, address) * 256, read_value(m, address + 1))

\* a slip: the stack pointer stops at 0 instead of wrapping to 255
pop_Saturating(m) ==
  LET address == StackAddress(m.sp)
      m1 == read(read(m, "sp", address), "sp", address + 1)
  IN  IF Faulted(m1) THEN m1 ELSE [m1 EXCEPT !.sp = IF m.sp = 0 THEN 0 ELSE m.sp - 1]

\* CPU::pop: the machine after the pop
pop(m) ==
  LET address == StackAddress(m.sp)
      m1 == read(read(m, "sp", address), "sp", address + 1)
  IN  IF Faulted(m1) THEN m1 ELSE [m1 EXCEPT !.sp = WrapU8(m.sp + 255)]

\* ------------------------------------------------- screen_as_framebuffer

\* the distance in f32 steps from 1.0 to a phase p of 0.5 or more: the
\* values below 1.0 are 2^-24 apart, the values above 2^-23; a phase under
\* 0.5 is further away than the number this gives
UlpsFromOne(p) ==
  IF p >= PHASE_ONE THEN (p - PHASE_ONE) \div 16 ELSE (PHASE_ONE - p) \div 8

\* phase.approx_eq_ulps(&(1.0), ulps)
ApproxEqOne(p, ulps) == UlpsFromOne(p) <= ulps

\* (f * 256.0) as u8, for f in units of 2^-27: the product is exact, the
\* cast drops the fraction and saturates
Times256AsU8(f) ==
  LET q == f \div (PHASE_ONE \div 256)
  IN  IF f < 0 THEN 0 ELSE IF q > 255 THEN 255 ELSE q

\* the opacity byte of a pixel
Opacity(p) ==
  IF ApproxEqOne(p.phase, 2) THEN 255
  ELSE IF p.lit THEN Times256AsU8(p.phase)
  ELSE Times256AsU8(F32Round(PHASE_ONE - p.phase))

\* the luma byte of a pixel
Luma(p) == IF p.lit \/ p.phase < PHASE_ONE THEN 255 ELSE 0

\* a slip: the fade of an unlit pixel runs the wrong way
RenderPixel_FadeIn(p) ==
  <<Luma(p), Luma(p), Luma(p),
    IF ApproxEqOne(p.phase, 2) THEN 255 ELSE Times256AsU8(p.phase)>>

\* the 4-byte group of a pixel
RenderPixel(p) == <<Luma(p), Luma(p), Luma(p), Opacity(p)>>

\* CPU::screen_as_framebuffer: the framebuffer is resized to one group per
\* pixel of the screen, and the 64 * 32 pixels are read in order; the first
\* one outside the screen panics
screen_as_framebuffer(m) ==
  LET s == m.screen
      n == SCREEN_WIDTH * SCREEN_HEIGHT
      keep == {j \in DOMAIN s.at : RenderPixel(s.at[j]) # RenderPixel(s.fill)}
  IN  IF s.len >= n
      THEN [m EXCEPT !.framebuffer =
                       [len |-> s.len,
                        fill |-> RenderPixel(s.fill),
                        at |-> [k \in keep |-> RenderPixel(s.at[k])]]]
      ELSE Panic([m EXCEPT !.framebuffer =
                             VecFromSeq([k \in 1..s.len |-> RenderPixel(VecGet(s, k - 1))])],
                 "index out of bounds", <<>>)

\* ------------------------------------------------------- run_next: prologue

\* if p.phase < 1.0 { p.phase += PHASE_TICK; }
DecayPixel(p) ==
  IF p.phase < PHASE_ONE THEN [p EXCEPT !.phase = F32Round(@ + PHASE_TICK)] ELSE p

\* Adjust phase of any decaying pixels
DecayPhase(m) ==
  LET s == m.screen
      keep == {j \in DOMAIN s.at : DecayPixel(s.at[j]) # DecayPixel(s.fill)}
  IN  IF s.len = 0 THEN m
      ELSE [m EXCEPT !.screen = [len |-> s.len,
                                 fill |-> DecayPixel(s.fill),
                                 at |-> [k \in keep |-> DecayPixel(s.at[k])]]]

\* a slip: the timers are decremented without the test for 0
UpdateTimers_Wrapping(m, elapsed) ==
  IF m.timer_instant = "None" THEN m
  ELSE LET total == m.timer_elapsed + elapsed
       IN  IF total >= TIMER_PERIOD
           THEN [m EXCEPT !.timer_elapsed = total - TIMER_PERIOD,
                          !.dt = WrapU8(m.dt + 255),
                          !.st = WrapU8(m.st + 255),
                          !.elapsed = elapsed,
                          !.ticked = TRUE]
           ELSE [m EXCEPT !.timer_elapsed = total, !.elapsed = elapsed]

\* clock ST / DT from the time elapsed since the timer point reference
UpdateTimers(m, elapsed) ==
  IF m.timer_instant = "None" THEN m
  ELSE LET total == m.timer_elapsed + elapsed
       IN  IF total >= TIMER_PERIOD
           THEN [m EXCEPT !.timer_elapsed = total - TIMER_PERIOD,
                          !.dt = IF m.dt > 0 THEN m.dt - 1 ELSE m.dt,
                          !.st = IF m.st > 0 THEN m.st - 1 ELSE m.st,
                          !.elapsed = elapsed,
                          !.ticked = TRUE]
           ELSE [m EXCEPT !.timer_elapsed = total, !.elapsed = elapsed]

\* Opcode::new(self.read_next(), self.read_next())
Fetch(m) ==
  LET m1 == read_next(m)
      m2 == read_next(m1)
  IN  IF Faulted(m2) THEN m2
      ELSE [m2 EXCEPT !.opcode = <<read_value(m, m.pc), read_value(m1, m1.pc)>>]

\* ---------------------------------------------------------- run_next: arms

\* self.screen[offset_y + x] = Default::default() for the first rows * 64
\* offsets in order; the first offset outside the vector panics
ClearRows(m, rows) ==
  LET n == rows * SCREEN_WIDTH
  IN  IF n < m.screen.len
      THEN [m EXCEPT !.screen = VecPatch(@, [k \in 1..n |-> DefaultPixel])]
      ELSE IF n = m.screen.len
      THEN [m EXCEPT !.screen = VecResize(VecEmpty, n, DefaultPixel)]
      ELSE Panic([m EXCEPT !.screen = VecResize(VecEmpty, m.screen.len, DefaultPixel)],
                 "index out of bounds", <<>>)

ArmCLS(m) == ClearRows(m, SCREEN_HEIGHT)

ArmHRCLS(m) == ClearRows(m, HIRES_HEIGHT)

ArmRET(m) ==
  LET m1 == pop(m)
  IN  IF Faulted(m1) THEN m1 ELSE [m1 EXCEPT !.pc = pop_value(m)]

\* Ignore all other 0x0___ patterns and treat as NOP
ArmNOP(m) == m

ArmJP(m, nnn) == [m EXCEPT !.pc = nnn]

ArmCALL(m, nnn) ==
  LET m1 == push(m, m.pc)
  IN  IF Faulted(m1) THEN m1 ELSE [m1 EXCEPT !.pc = nnn]

Skip(m) == [m EXCEPT !.pc = WrapU16(m.pc + 2)]

ArmSE(m, x, kk) == IF m.v[x] = kk THEN Skip(m) ELSE m

ArmSNE(m, x, kk) == IF m.v[x] # kk THEN Skip(m) ELSE m

ArmSEV(m, x, y) == IF m.v[x] = m.v[y] THEN Skip(m) ELSE m

ArmLD(m, x, kk) == [m EXCEPT !.v[x] = kk]

ArmADD(m, x, kk) == [m EXCEPT !.v[x] = WrapU8(m.v[x] + kk)]

ArmLDV(m, x, y) == [m EXCEPT !.v[x] = m.v[y]]

ArmOR(m, x, y) == [m EXCEPT !.v[x] = BitOr(m.v[x], m.v[y])]

ArmAND(m, x, y) == [m EXCEPT !.v[x] = BitAnd(m.v[x], m.v[y])]

ArmXOR(m, x, y) == [m EXCEPT !.v[x] = BitXor(m.v[x], m.v[y])]

\* a slip: the flag is written before the sum, as SUB does
ArmADDV_FlagFirst(m, x, y) ==
  LET r == m.v[x] + m.v[y]
      m1 == [m EXCEPT !.v[15] = IF r > 255 THEN 1 ELSE 0]
  IN  [m1 EXCEPT !.v[x] = r % 256]

\* a slip: the sum goes to Vy
ArmADDV_IntoVy(m, x, y) ==
  LET r == m.v[x] + m.v[y]
      m1 == [m EXCEPT !.v[y] = r % 256]
  IN  [m1 EXCEPT !.v[15] = IF r > 255 THEN 1 ELSE 0]

ArmADDV(m, x, y) ==
  LET r == m.v[x] + m.v[y]
      m1 == [m EXCEPT !.v[x] = r % 256]
  IN  [m1 EXCEPT !.v[15] = IF r > 255 THEN 1 ELSE 0]

ArmSUB(m, x, y) ==
  LET vx == m.v[x]
      vy == m.v[y]
      m1 == [m EXCEPT !.v[15] = IF vx > vy THEN 1 ELSE 0]
  IN  [m1 EXCEPT !.v[x] = WrapU8(vx + 256 - vy)]

ArmSHR(m, x) ==
  LET m1 == [m EXCEPT !.v[15] = BitAnd(m.v[x], 1)]
  IN  [m1 EXCEPT !.v[x] = m1.v[x] \div 2]

ArmSUBN(m, x, y) ==
  LET vx == m.v[x]
      vy == m.v[y]
      m1 == [m EXCEPT !.v[15] = IF vy > vx THEN 1 ELSE 0]
  IN  [m1 EXCEPT !.v[x] = WrapU8(vy + 256 - vx)]

ArmSHL(m, x) ==
  LET m1 == [m EXCEPT !.v[15] = m.v[x] \div 128]
  IN  [m1 EXCEPT !.v[x] = (m1.v[x] * 2) % 256]

ArmSNEV(m, x, y) == IF m.v[x] # m.v[y] THEN Skip(m) ELSE m

ArmLDI(m, nnn) == [m EXCEPT !.i = nnn]

ArmJPV0(m, nnn) == [m EXCEPT !.pc = WrapU16(nnn + m.v[0])]

\* random is the byte random::<u8>() returned
ArmRND(m, x, kk, random) == [m EXCEPT !.v[x] = BitAnd(random, kk)]

\* a slip: the sprite bit is OR-ed into the pixel
DrawPixel_Or(m, x, y, row, col) ==
  LET sy == (y + row) % SCREEN_HEIGHT
      sx == (x + col) % SCREEN_WIDTH
      offset == sy * SCREEN_WIDTH + sx
      source == m.i + row
      m1 == IF offset < m.screen.len THEN m
            ELSE Panic(m, "index out of bounds", <<>>)
      m2 == Index(m1, "i", "r", source, source)
      pixel == VecGet(m.screen, offset)
      was_lit == pixel.lit
      pixel_set_lit == Bit(VecGet(m.ram, source), 7 - col)
      lit == was_lit \/ pixel_set_lit = 1
      phase == IF lit THEN PHASE_ONE ELSE IF was_lit THEN 0 ELSE pixel.phase
  IN  IF Faulted(m2) THEN m2
      ELSE [m2 EXCEPT !.screen = VecSet(@, offset, [lit |-> lit, phase |-> phase]),
                      !.v[15] = BitOr(@, IF was_lit /\ ~lit THEN 1 ELSE 0)]

\* a slip: the fade restarts on every unlit pixel the sprite covers
DrawPixel_FadeRestart(m, x, y, row, col) ==
  LET sy == (y + row) % SCREEN_HEIGHT
      sx == (x + col) % SCREEN_WIDTH
      offset == sy * SCREEN_WIDTH + sx
      source == m.i + row
      m1 == IF offset < m.screen.len THEN m
            ELSE Panic(m, "index out of bounds", <<>>)
      m2 == Index(m1, "i", "r", source, source)
      pixel == VecGet(m.screen, offset)
      was_lit == pixel.lit
      pixel_set_lit == Bit(VecGet(m.ram, source), 7 - col)
      lit == ((IF was_lit THEN 1 ELSE 0) + pixel_set_lit) % 2 # 0
      phase == IF lit THEN PHASE_ONE ELSE 0
  IN  IF Faulted(m2) THEN m2
      ELSE [m2 EXCEPT !.screen = VecSet(@, offset, [lit |-> lit, phase |-> phase]),
                      !.v[15] = BitOr(@, IF was_lit /\ ~lit THEN 1 ELSE 0)]

\* a slip: the bits of a sprite byte are taken least significant first
DrawPixel_LsbFirst(m, x, y, row, col) ==
  LET sy == (y + row) % SCREEN_HEIGHT
      sx == (x + col) % SCREEN_WIDTH
      offset == sy * SCREEN_WIDTH + sx
      source == m.i + row
      m1 == IF offset < m.screen.len THEN m
            ELSE Panic(m, "index out of bounds", <<>>)
      m2 == Index(m1, "i", "r", source, source)
      pixel == VecGet(m.screen, offset)
      was_lit == pixel.lit
      pixel_set_lit == Bit(VecGet(m.ram, source), col)
      lit == ((IF was_lit THEN 1 ELSE 0) + pixel_set_lit) % 2 # 0
      phase == IF lit THEN PHASE_ONE ELSE IF was_lit THEN 0 ELSE pixel.phase
  IN  IF Faulted(m2) THEN m2
      ELSE [m2 EXCEPT !.screen = VecSet(@, offset, [lit |-> lit, phase |-> phase]),
                      !.v[15] = BitOr(@, IF was_lit /\ ~lit THEN 1 ELSE 0)]

\* one pass of the inner loop of DRW: row i, column j of the sprite at (x, y)
DrawPixel(m, x, y, row, col) ==
  LET sy == (y + row) % SCREEN_HEIGHT
      sx == (x + col) % SCREEN_WIDTH
      offset == sy * SCREEN_WIDTH + sx
      source == m.i + row
      m1 == IF offset < m.screen.len THEN m
            ELSE Panic(m, "index out of bounds", <<>>)
      m2 == Index(m1, "i", "r", source, source)
      pixel == VecGet(m.screen, offset)
      was_lit == pixel.lit
      pixel_set_lit == Bit(VecGet(m.ram, source), 7 - col)
      lit == ((IF was_lit THEN 1 ELSE 0) + pixel_set_lit) % 2 # 0
      phase == IF lit THEN PHASE_ONE ELSE IF was_lit THEN 0 ELSE pixel.phase
  IN  IF Faulted(m2) THEN m2
      ELSE [m2 EXCEPT !.screen = VecSet(@, offset, [lit |-> lit, phase |-> phase]),
                      !.v[15] = BitOr(@, IF was_lit /\ ~lit THEN 1 ELSE 0)]

\* the passes k, k + 1, ... of the two loops of DRW, 8 per sprite row
RECURSIVE DrawFrom(_, _, _, _, _)
DrawFrom(m, x, y, n, k) ==
  IF Faulted(m) \/ k >= 8 * n THEN m
  ELSE DrawFrom(DrawPixel(m, x, y, k \div 8, k % 8), x, y, n, k + 1)

ArmDRW(m, x, y, n) ==
  DrawFrom([m EXCEPT !.v[15] = 0], m.v[x], m.v[y], n, 0)

\* CHIP-8 hex keyboard -> modern keyboard
KEYBOARD_MAP ==
  <<"X", "Num1", "Num2", "Num3", "Q", "W", "E", "A", "S", "D", "Z", "C",
    "Num4", "R", "F", "V">>

\* KEYBOARD_MAP[self.v[x] as usize]
KeyIndex(m, x) ==
  IF m.v[x] < Len(KEYBOARD_MAP) THEN m
  ELSE Panic(m, "index out of bounds", <<>>)

\* pressed: the host keys r.input_keyboard_state reports as down
ArmSKP(m, x, pressed) ==
  LET m1 == KeyIndex(m, x)
  IN  IF Faulted(m1) THEN m1
      ELSE IF KEYBOARD_MAP[m.v[x] + 1] \in pressed THEN Skip(m1) ELSE m1

ArmSKNP(m, x, pressed) ==
  LET m1 == KeyIndex(m, x)
  IN  IF Faulted(m1) THEN m1
      ELSE IF KEYBOARD_MAP[m.v[x] + 1] \notin pressed THEN Skip(m1) ELSE m1

ArmLDVDT(m, x) == [m EXCEPT !.v[x] = m.dt]

ArmLDDT(m, x) == [m EXCEPT !.dt = m.v[x]]

ArmLDST(m, x) == [m EXCEPT !.st = m.v[x]]

ArmADDI(m, x) == [m EXCEPT !.i = WrapU16(m.i + m.v[x])]

\* self.i = (self.v[x] * 5) as u16
ArmFONT(m, x) ==
  LET m1 == CheckMulU8(m, m.v[x], FONT_GLYPH_SIZE)
  IN  IF Faulted(m1) THEN m1
      ELSE [m1 EXCEPT !.i = WrapU8(m.v[x] * FONT_GLYPH_SIZE)]

ArmBCD(m, x) ==
  LET r == m.v[x]
      m1 == write(m, "i", m.i, r \div 100)
      m2 == write(CheckAddU16(m1, m.i, 1), "i", WrapU16(m.i + 1), (r % 100) \div 10)
  IN  write(CheckAddU16(m2, m.i, 2), "i", WrapU16(m.i + 2), r % 10)

\* the passes j, j + 1, ..., x of the loop of LD [I], Vx
RECURSIVE StoreFrom(_, _, _)
StoreFrom(m, x, j) ==
  IF Faulted(m) \/ j > x THEN m
  ELSE StoreFrom(write(CheckAddU16(m, m.i, j), "i", WrapU16(m.i + j), m.v[j]),
                 x, j + 1)

ArmSTORE(m, x) == StoreFrom(m, x, 0)

\* the passes j, j + 1, ..., x of the loop of LD Vx, [I]
RECURSIVE LoadFrom(_, _, _)
LoadFrom(m, x, j) ==
  LET m1 == read(CheckAddU16(m, m.i, j), "i", WrapU16(m.i + j))
  IN  IF Faulted(m) \/ j > x THEN m
      ELSE IF Faulted(m1) THEN m1
      ELSE LoadFrom([m1 EXCEPT !.v[j] = read_value(m, WrapU16(m.i + j))], x, j + 1)

ArmLOAD(m, x) == LoadFrom(m, x, 0)

HEX == <<"0", "1", "2", "3", "4", "5", "6", "7", "8", "9", "A", "B", "C", "D", "E", "F">>

\* {:02X}
Hex2(byte) == <<HEX[(byte \div 16) + 1], HEX[(byte % 16) + 1]>>

\* a slip: the bytes are reported low byte first
ArmUnknown_Swapped(m, hi, lo) ==
  Panic(m, "unknown opcode", <<"unknown opcode: $">> \o Hex2(lo) \o Hex2(hi))

\* panic!("unknown opcode: ${:02X}{:02X}", opcode.hi, opcode.lo)
ArmUnknown(m, hi, lo) ==
  Panic(m, "unknown opcode", <<"unknown opcode: $">> \o Hex2(hi) \o Hex2(lo))

\* ------------------------------------------------------ run_next: dispatch

\* the bytes random::<u8>() may return
RandomBytes == {0, 1, 128, 255}

\* the sets of host keys that may be down
PressedChoices == {{}, {"X", "Num2"}}

\* the nanoseconds timer_instant.elapsed() may return: a step shorter and a
\* step longer than one 60 Hz period
ElapsedChoices == {9000000, 40000000}

\* a clock every reading of which is below one period: half a period, and
\* one nanosecond less than a period
ShortElapsed == {8333333, 16666665}

\* a clock with one reading
SteadyElapsed == {9000000}

\* match opcode.unpack(): the first arm that matches, in the order of the
\* source; the result is the set of machines the arm can leave, one for
\* each value of the input the arm consumes
Dispatch(m) ==
  LET hi == m.opcode[1]
      lo == m.opcode[2]
      n == unpack(hi, lo)
      x == n[2]
      y == n[3]
      nnn == as_u12(hi, lo)
      kk == as_u8(hi, lo)
  IN  IF n = <<0, 0, 14, 0>> THEN {ArmCLS(m)}
      ELSE IF n = <<0, 2, 3, 0>> THEN {ArmHRCLS(m)}
      ELSE IF n = <<0, 0, 14, 14>> THEN {ArmRET(m)}
      ELSE IF n[1] = 0 THEN {ArmNOP(m)}
      ELSE IF n[1] = 1 THEN {ArmJP(m, nnn)}
      ELSE IF n[1] = 2 THEN {ArmCALL(m, nnn)}
      ELSE IF n[1] = 3 THEN {ArmSE(m, x, kk)}
      ELSE IF n[1] = 4 THEN {ArmSNE(m, x, kk)}
      ELSE IF n[1] = 5 THEN {ArmSEV(m, x, y)}
      ELSE IF n[1] = 6 THEN {ArmLD(m, x, kk)}
      ELSE IF n[1] = 7 THEN {ArmADD(m, x, kk)}
      ELSE IF n[1] = 8 /\ n[4] = 0 THEN {ArmLDV(m, x, y)}
      ELSE IF n[1] = 8 /\ n[4] = 1 THEN {ArmOR(m, x, y)}
      ELSE IF n[1] = 8 /\ n[4] = 2 THEN {ArmAND(m, x, y)}
      ELSE IF n[1] = 8 /\ n[4] = 3 THEN {ArmXOR(m, x, y)}
      ELSE IF n[1] = 8 /\ n[4] = 4 THEN {ArmADDV(m, x, y)}
      ELSE IF n[1] = 8 /\ n[4] = 5 THEN {ArmSUB(m, x, y)}
      ELSE IF n[1] = 8 /\ n[4] = 6 THEN {ArmSHR(m, x)}
      ELSE IF n[1] = 8 /\ n[4] = 7 THEN {ArmSUBN(m, x, y)}
      ELSE IF n[1] = 8 /\ n[4] = 14 THEN {ArmSHL(m, x)}
      ELSE IF n[1] = 9 /\ n[4] = 0 THEN {ArmSNEV(m, x, y)}
      ELSE IF n[1] = 10 THEN {ArmLDI(m, nnn)}
      ELSE IF n[1] = 11 THEN {ArmJPV0(m, nnn)}
      ELSE IF n[1] = 12 THEN {ArmRND(m, x, kk, random) : random \in RandomBytes}
      ELSE IF n[1] = 13 THEN {ArmDRW(m, x, y, n[4])}
      ELSE IF n[1] = 14 /\ kk = 158
           THEN {ArmSKP(m, x, pressed) : pressed \in PressedChoices}
      ELSE IF n[1] = 14 /\ kk = 161
           THEN {ArmSKNP(m, x, pressed) : pressed \in PressedChoices}
      ELSE IF n[1] = 15 /\ kk = 7 THEN {ArmLDVDT(m, x)}
      ELSE IF n[1] = 15 /\ kk = 21 THEN {ArmLDDT(m, x)}
      ELSE IF n[1] = 15 /\ kk = 24 THEN {ArmLDST(m, x)}
      ELSE IF n[1] = 15 /\ kk = 30 THEN {ArmADDI(m, x)}
      ELSE IF n[1] = 15 /\ kk = 41 THEN {ArmFONT(m, x)}
      ELSE IF n[1] = 15 /\ kk = 51 THEN {ArmBCD(m, x)}
      ELSE IF n[1] = 15 /\ kk = 85 THEN {ArmSTORE(m, x)}
      ELSE IF n[1] = 15 /\ kk = 101 THEN {ArmLOAD(m, x)}
      ELSE {ArmUnknown(m, hi, lo)}

\* Update timer point reference
RefreshInstant(m) ==
  IF Faulted(m) THEN m ELSE [m EXCEPT !.timer_instant = "Some"]

\* the clock is read only when there is a timer point reference
ElapsedInputs(m) == IF m.timer_instant = "None" THEN {0} ELSE m.clock

\* a slip: the timers are clocked after the instruction, not before it
run_next_at_TimersLast(m, elapsed) ==
  LET m1 == Fetch(DecayPhase(m))
  IN  IF Faulted(m1) THEN {m1}
      ELSE {RefreshInstant(UpdateTimers(d, elapsed)) : d \in Dispatch(m1)}

\* CPU::run_next with the clock reading elapsed
run_next_at(m, elapsed) ==
  LET m1 == Fetch(UpdateTimers(DecayPhase(m), elapsed))
  IN  IF Faulted(m1) THEN {m1}
      ELSE {RefreshInstant(d) : d \in Dispatch(m1)}

\* CPU::run_next
run_next(m) == UNION {run_next_at(m, elapsed) : elapsed \in ElapsedInputs(m)}

\* ------------------------------------------------------------- ROM files

\* the two bytes of each instruction, as Opcode::unpack reads them back
InsCLS == <<0, 224>>
InsHRCLS == <<2, 48>>
InsRET == <<0, 238>>
InsJP(nnn) == <<16 + (nnn \div 256), nnn % 256>>
InsCALL(nnn) == <<32 + (nnn \div 256), nnn % 256>>
InsLD(x, kk) == <<96 + x, kk>>
InsADD(x, kk) == <<112 + x, kk>>
InsALU(x, y, op) == <<128 + x, y * 16 + op>>
InsLDI(nnn) == <<160 + (nnn \div 256), nnn % 256>>
InsJPV0(nnn) == <<176 + (nnn \div 256), nnn % 256>>
InsRND(x, kk) == <<192 + x, kk>>
InsDRW(x, y, n) == <<208 + x, y * 16 + n>>
InsSKP(x) == <<224 + x, 158>>
InsSKNP(x) == <<224 + x, 161>>
InsF(x, kk) == <<240 + x, kk>>

\* LD V0, 0x05; LD V1, 0x0A; ADD V0, V1; JP 0x200
EndToEndRom == InsLD(0, 5) \o InsLD(1, 10) \o InsALU(0, 1, 4) \o InsJP(512)

\* one instruction word that is in none of the supported families, and
\* words of the supported families next to them
OutsideWords ==
  { <<0, 0>>, <<1, 35>>, <<0, 225>>, <<0, 239>>, <<2, 49>>, <<15, 255>>,
    <<80, 17>>, <<95, 255>>, <<81, 33>>,
    <<128, 8>>, <<129, 41>>, <<128, 10>>, <<128, 11>>, <<128, 12>>,
    <<143, 253>>, <<128, 15>>,
    <<144, 1>>, <<145, 47>>,
    <<224, 0>>, <<224, 159>>, <<225, 160>>, <<224, 145>>, <<239, 255>>,
    <<240, 0>>, <<240, 8>>, <<241, 22>>, <<240, 86>>, <<240, 102>>,
    <<255, 255>> }

\* a glyph drawn and drawn again, which turns its pixels off, and then the
\* empty words of the rest of memory
FadeRom == InsDRW(0, 1, 5) \o InsDRW(0, 1, 5)

InsideWords ==
  { InsCLS, InsRET, InsJP(520), InsCALL(520), <<48, 0>>, <<64, 0>>,
    <<80, 16>>, InsLD(3, 7), InsADD(3, 7), InsALU(0, 1, 0), InsALU(0, 1, 14),
    <<144, 16>>, InsLDI(291), InsJPV0(520), InsDRW(0, 1, 1), InsSKP(0),
    InsSKNP(0), InsF(0, 7), InsF(0, 21), InsF(0, 24), InsF(0, 30),
    InsF(0, 41), InsF(0, 51), InsF(1, 85), InsF(1, 101) }

WordRoms == OutsideWords \cup InsideWords

\* the supported instructions that index a vector with a register value
KeyRoms ==
  { InsLD(0, kk) \o ins : kk \in {0, 15, 16, 255}, ins \in {InsSKP(0), InsSKNP(0)} }

SpriteRoms ==
  { InsLDI(nnn) \o InsDRW(0, 0, n) : nnn \in {0, 4094, 4095}, n \in {1, 2} }

ClearRoms == { InsHRCLS \o InsCLS, InsLDI(5) \o InsDRW(0, 0, 5) \o InsCLS \o InsHRCLS }

\* program counters above 0xFFF: JP V0, RET of a stack word, JP to the last byte
PcRoms ==
  { InsLD(0, 255) \o InsJPV0(4095),
    InsLD(0, 2) \o InsJPV0(4095),
    InsJP(4095),
    InsJP(4094),
    InsLDI(256) \o InsLD(0, 255) \o InsLD(1, 254) \o InsF(1, 85) \o InsRET,
    InsLDI(256) \o InsLD(0, 255) \o InsLD(1, 255) \o InsF(1, 85) \o InsRET,
    InsCALL(516) \o InsJP(512) \o InsRET }

\* memory accessed through I, with I up to and past the end of memory
IndexRoms ==
  { InsLDI(nnn) \o InsLD(0, kk) \o InsF(0, 30) \o InsLD(1, 137) \o ins :
      nnn \in {4095}, kk \in {0, 2},
      ins \in {InsF(1, 51), InsF(1, 85), InsF(1, 101), InsDRW(0, 0, 2)} }
  \cup
  { InsLDI(nnn) \o InsLD(2, 255) \o ins :
      nnn \in {768, 4094},
      ins \in {InsF(2, 51), InsF(2, 85), InsF(2, 101), InsDRW(0, 0, 2)} }

\* arithmetic that overflows its width
OverflowRoms ==
  { InsLD(0, kk) \o InsF(0, 41) : kk \in {0, 15, 51, 52, 255} }
  \cup
  { InsLD(0, kk) \o InsADD(0, 2) \o InsADD(0, 255) : kk \in {1, 254, 255} }
  \cup
  { InsRET \o InsCALL(512), InsLD(0, 0) \o <<48, 0>> \o InsJP(512) \o InsRET }

\* timers, index, stack and display all in use
BusyRom ==
  InsLD(0, 9) \o InsF(0, 21) \o InsF(0, 24) \o InsLDI(5) \o InsDRW(0, 0, 5)
    \o InsCALL(512)

\* random operands in Vx and Vy, then one register-to-register operation
AluRegisters == {<<0, 1>>, <<1, 15>>, <<15, 1>>, <<15, 15>>, <<3, 3>>}

AluRom(x, y, op) ==
  InsRND(x, 255) \o InsRND(y, 255) \o InsALU(x, y, op)

AddRoms == { AluRom(r[1], r[2], 4) : r \in AluRegisters }

SubRoms == { AluRom(r[1], r[2], op) : r \in AluRegisters, op \in {5, 7} }

ShiftRoms == { AluRom(r[1], r[2], op) : r \in AluRegisters, op \in {6, 14} }

\* a RET on the empty stack of a word stored at 0x100 (sp 0 -> 255) to a CALL
\* at 0x300, which pushes with sp = 255 and calls the RET at 0x206
UnderflowRom ==
  InsLDI(256) \o InsLD(0, 3) \o InsF(0, 85) \o InsRET \o [k \in 1..248 |-> 0]
    \o InsCALL(518)

\* a clear-screen of the blank display, and nothing after it
BlankRom == InsCLS

\* a subroutine at 0x200 that calls itself
CallRom == InsCALL(512)

\* calls and returns, nested, and at the top of the stack window
StackRoms ==
  { UnderflowRom,
    InsCALL(516) \o InsJP(512) \o InsRET,
    InsCALL(514) \o InsCALL(516) \o InsCALL(520) \o InsJP(512) \o InsRET,
    InsCALL(516) \o InsRET \o InsLD(0, 7) \o InsRET,
    InsRET \o InsCALL(512) }

\* the sprite at I = 0 (the glyphs 0, 1, 2) drawn twice at one origin,
\* inside the grid and across its right and bottom edges, and three times
\* at (0, 0)
RepeatRoms ==
  { InsLD(0, o[1]) \o InsLD(1, o[2]) \o InsDRW(0, 1, n) \o InsDRW(0, 1, n) :
      o \in {<<0, 0>>, <<62, 30>>, <<255, 255>>, <<60, 29>>}, n \in {0, 1, 5, 15} }
  \cup
  { InsDRW(0, 1, 5) \o InsDRW(0, 1, 5) \o InsDRW(0, 1, 5) }

\* a sprite over pixels another draw has lit, a sprite of zero bytes, the
\* flag register as the x coordinate, and a glyph chosen by Fx29
OverlapRoms ==
  { InsDRW(2, 2, 5) \o InsLD(0, 2) \o InsDRW(0, 1, 5) \o InsDRW(0, 1, 5) \o InsCLS,
    InsLDI(256) \o InsDRW(0, 0, 2) \o InsDRW(0, 0, 2),
    InsDRW(15, 1, 5) \o InsDRW(15, 1, 5) \o InsDRW(15, 1, 5),
    InsLD(0, 7) \o InsF(0, 41) \o InsDRW(1, 1, 1) \o InsLD(1, 4) \o InsDRW(1, 2, 5)
      \o InsDRW(1, 2, 5) }

DrawRoms == RepeatRoms \cup OverlapRoms

\* the timers written and read back, counting down to 0 and staying there,
\* and never written
TimerRoms ==
  { InsLD(0, 2) \o InsF(0, 21) \o InsF(1, 7) \o InsF(0, 24) \o InsF(2, 7) \o InsF(3, 7),
    InsLD(0, 1) \o InsF(0, 24) \o InsF(0, 21) \o InsJP(518),
    InsLD(0, 255) \o InsF(0, 21) \o InsF(1, 7) \o InsF(1, 21) \o InsF(0, 24)
      \o InsJP(512),
    EndToEndRom }

Roms ==
  {EndToEndRom, BusyRom} \cup WordRoms \cup KeyRoms \cup SpriteRoms
    \cup ClearRoms \cup PcRoms \cup IndexRoms \cup OverflowRoms \cup AddRoms
    \cup SubRoms \cup ShiftRoms \cup StackRoms \cup DrawRoms \cup TimerRoms

\* ---------------------------------------------------------------- actions

\* CPU::default(), before the host has called anything, with the ROM file
\* one of R, the clock one of C and frames of one of B steps
InitFrame(R, C, B) ==
  /\ ram = VecEmpty
  /\ screen = VecEmpty
  /\ framebuffer = VecEmpty
  /\ v = [k \in 0..15 |-> 0]
  /\ i = 0
  /\ pc = 0
  /\ sp = 0
  /\ timer_elapsed = 0
  /\ timer_instant = "None"
  /\ dt = 0
  /\ st = 0
  /\ rom \in R
  /\ overflow_checks \in BOOLEAN
  /\ clock \in C
  /\ fault = NoFault
  /\ bus = {}
  /\ last = [call |-> "new", v |-> v, i |-> 0, pc |-> 0, sp |-> 0, dt |-> 0,
             st |-> 0, timer_elapsed |-> 0, timer_instant |-> "None",
             ram_len |-> 0, screen |-> VecEmpty, opcode |-> <<>>, elapsed |-> 0,
             ticked |-> FALSE,
             prev |-> [call |-> "new", opcode |-> <<>>, pc |-> 0, sp |-> 0,
                       v |-> v, i |-> 0, screen |-> VecEmpty]]
  /\ called = [take_rom |-> FALSE, reset |-> FALSE]
  /\ steps = 0
  /\ timing = [total |-> 0, ticks |-> 0]
  /\ budget \in B

\* the same with frames of MaxSteps steps
InitOf(R, C) == InitFrame(R, C, {MaxSteps})

\* the same with a clock that measures ElapsedChoices
InitWith(R) == InitOf(R, {ElapsedChoices})

\* the same with the fade program, a clock with one reading, and the frame
\* asked for in the middle of a fade or after it
InitFade == InitFrame({FadeRom}, {SteadyElapsed}, {MaxSteps, MaxFadeSteps})

\* the programs that leave the display, or all of it but one glyph, blank,
\* with the frame asked for right after the reset, after one step, or after
\* MaxSteps steps
InitBlank == InitFrame({BlankRom, FadeRom}, {SteadyElapsed}, {0, 1, MaxSteps})

\* the same with the program that calls itself, followed to a depth of
\* MaxCallSteps calls
InitCalls == InitFrame({CallRom}, {SteadyElapsed}, {MaxCallSteps})

\* the state before the call, with what the call m fetched and read, and
\* which call came before it
Before(call, m) ==
  [call |-> call, v |-> v, i |-> i, pc |-> pc, sp |-> sp, dt |-> dt,
   st |-> st, timer_elapsed |-> timer_elapsed,
   timer_instant |-> timer_instant, ram_len |-> ram.len, screen |-> screen,
   opcode |-> m.opcode, elapsed |-> m.elapsed, ticked |-> m.ticked,
   prev |-> [call |-> last.call, opcode |-> last.opcode, pc |-> last.pc,
             sp |-> last.sp, v |-> last.v, i |-> last.i, screen |-> last.screen]]

\* the host inserts the ROM file
TakeRom ==
  /\ fault = NoFault
  /\ Becomes(take_rom(Cur, rom))
  /\ last' = Before("take_rom", Cur)
  /\ called' = [called EXCEPT !.take_rom = TRUE]
  /\ UNCHANGED <<rom, overflow_checks, clock, steps, timing, budget>>

\* the host resets the core
Reset ==
  /\ fault = NoFault
  /\ Becomes(reset(Cur))
  /\ last' = Before("reset", Cur)
  /\ called' = [called EXCEPT !.reset = TRUE]
  /\ steps' = 0
  /\ timing' = [total |-> 0, ticks |-> 0]
  /\ UNCHANGED <<rom, overflow_checks, clock, budget>>

\* the host runs one instruction
RunNext ==
  /\ fault = NoFault
  /\ steps < budget
  /\ \E m \in run_next(Cur) :
       /\ Becomes(m)
       /\ last' = Before("run_next", m)
       /\ timing' = [total |-> timing.total + m.elapsed,
                     ticks |-> timing.ticks + (IF m.ticked THEN 1 ELSE 0)]
  /\ steps' = steps + 1
  /\ UNCHANGED <<rom, overflow_checks, clock, called, budget>>

\* the host asks for the frame, after the steps of the frame
ScreenAsFramebuffer ==
  /\ fault = NoFault
  /\ steps = budget
  /\ Becomes(screen_as_framebuffer(Cur))
  /\ last' = Before("screen_as_framebuffer", Cur)
  /\ UNCHANGED <<rom, overflow_checks, clock, called, steps, timing, budget>>

Next == TakeRom \/ Reset \/ RunNext \/ ScreenAsFramebuffer

Init == InitWith(Roms)

Spec == Init /\ [][Next]_vars

\* the same machine with the ROM file drawn from one family
SpecEndToEnd == InitWith({EndToEndRom}) /\ [][Next]_vars

SpecWords == InitWith(WordRoms) /\ [][Next]_vars

SpecFaults ==
  InitWith(KeyRoms \cup SpriteRoms \cup ClearRoms \cup InsideWords) /\ [][Next]_vars

SpecPc == InitWith(PcRoms \cup {EndToEndRom}) /\ [][Next]_vars

SpecIndex == InitWith(IndexRoms) /\ [][Next]_vars

SpecOverflow == InitWith(OverflowRoms) /\ [][Next]_vars

SpecReset == InitWith({EndToEndRom, BusyRom} \cup ClearRoms) /\ [][Next]_vars

SpecAdd == InitWith(AddRoms) /\ [][Next]_vars

SpecSub == InitWith(SubRoms) /\ [][Next]_vars

SpecShift == InitWith(ShiftRoms) /\ [][Next]_vars

SpecStack == InitWith(StackRoms) /\ [][Next]_vars

\* the draws under the clock with one reading
SpecDraw == InitOf(DrawRoms, {SteadyElapsed}) /\ [][Next]_vars

\* the timers under a clock whose readings are all below one period
SpecTimers == InitOf(TimerRoms, {ShortElapsed}) /\ [][Next]_vars

\* one program followed through the fade of the pixels it turns off
SpecFade == InitFade /\ [][Next]_vars

SpecBlank == InitBlank /\ [][Next]_vars

\* one session of the host: the ROM file is inserted, the core is reset, and
\* the frame is run and asked for
SessionNext ==
  \/ (~called.take_rom /\ TakeRom)
  \/ (called.take_rom /\ ~called.reset /\ Reset)
  \/ (called.take_rom /\ called.reset /\ RunNext)
  \/ (called.take_rom /\ called.reset /\ ScreenAsFramebuffer)

\* the program that calls itself, through one session
SpecCalls == InitCalls /\ [][SessionNext]_vars

\* timers and draws together
SpecOrder ==
  InitOf(TimerRoms \cup OverlapRoms \cup {FadeRom}, {ElapsedChoices}) /\ [][Next]_vars

\* the timers under either clock
SpecClock == InitOf(TimerRoms, {ElapsedChoices, ShortElapsed}) /\ [][Next]_vars

\* ------------------------------------------------------------------ claims

\* the registers with the given values in V0, V1 and VF and 0 elsewhere
Registers(v0, v1, vf) ==
  [k \in 0..15 |-> IF k = 0 THEN v0 ELSE IF k = 1 THEN v1 ELSE IF k = 15 THEN vf ELSE 0]

\* a ROM has been loaded and the core reset, and nothing has panicked
Running == called.take_rom /\ called.reset /\ ram.len = RAM_SIZE

\* C1: after load_program of 60 05 61 0A 80 14 12 00 and reset, the first
\* step leaves V0 = 0x05, the second V1 = 0x0A, the third V0 = 0x0F with
\* VF = 0 and the fourth pc = 0x200, and the registers, I, sp and pc after
\* the k-th step are the same on every run, whatever the clock reads.
C1_EndToEnd ==
  (rom = EndToEndRom /\ Running) =>
    /\ fault = NoFault
    /\ v = Registers(IF steps = 0 THEN 0 ELSE IF steps % 4 \in {1, 2} THEN 5 ELSE 15,
                     IF steps < 2 THEN 0 ELSE 10,
                     0)
    /\ pc = 512 + 2 * (steps % 4)
    /\ i = 0
    /\ sp = 0

\* the fourth step has run, after a step in which the clock read 40 ms
C1_Witness ==
  /\ rom = EndToEndRom /\ Running /\ steps = 4 /\ pc = 512
  /\ v[0] = 15 /\ v[15] = 0
  /\ last.call = "run_next" /\ last.elapsed = 40000000 /\ last.ticked

\* the last call was a run_next on a loaded memory
Stepped == last.call = "run_next" /\ last.ram_len = RAM_SIZE

\* the two bytes in memory at the program counter the last step started from
FetchedWord ==
  <<VecGet(ram, last.pc % RAM_SIZE), VecGet(ram, (last.pc + 1) % RAM_SIZE)>>

\* the instruction families of the specification, by nibble pattern
InFamily(w) ==
  LET n == <<w[1] \div 16, w[1] % 16, w[2] \div 16, w[2] % 16>>
  IN  \/ w \in {<<0, 224>>, <<0, 238>>, <<2, 48>>}
      \/ n[1] \in {1, 2, 3, 4, 6, 7, 10, 11, 12, 13}
      \/ n[1] = 5 /\ n[4] = 0
      \/ n[1] = 8 /\ n[4] \in {0, 1, 2, 3, 4, 5, 6, 7, 14}
      \/ n[1] = 9 /\ n[4] = 0
      \/ n[1] = 14 /\ w[2] \in {158, 161}
      \/ n[1] = 15 /\ w[2] \in {7, 21, 24, 30, 41, 51, 85, 101}

\* the digit a character of {:02X} stands for
HexValue(c) == CHOOSE d \in 0..15 : HEX[d + 1] = c

\* the two bytes a panic message reports after the "$"
ReportedWord(msg) ==
  <<16 * HexValue(msg[2]) + HexValue(msg[3]),
    16 * HexValue(msg[4]) + HexValue(msg[5])>>

ReportsFetchedWord ==
  /\ fault.kind = "unknown opcode"
  /\ Len(fault.msg) = 5
  /\ ReportedWord(fault.msg) = FetchedWord

\* C2 as claimed: every fetched word outside the supported families ends the
\* step in a fault that reports exactly its two bytes.
C2_Original ==
  (Stepped /\ ~InFamily(FetchedWord)) => ReportsFetchedWord

\* C2 as amended: a fetched word outside the supported families ends the
\* step in a fault that reports exactly its two bytes, unless its first
\* nibble is 0 or 5: a 0x0nnn word other than 00E0, 00EE and 0230 completes
\* as a no-op that changes only pc, and 5xyN with N != 0 completes as
\* SE Vx, Vy.
C2_UnknownOpcodeFaults ==
  (Stepped /\ ~InFamily(FetchedWord)) =>
    IF FetchedWord[1] \div 16 = 0
    THEN /\ fault = NoFault
         /\ pc = (last.pc + 2) % 65536
         /\ v = last.v /\ i = last.i /\ sp = last.sp
    ELSE IF FetchedWord[1] \div 16 = 5
    THEN /\ fault = NoFault
         /\ pc = (last.pc + (IF last.v[FetchedWord[1] % 16] = last.v[FetchedWord[2] \div 16]
                             THEN 4 ELSE 2)) % 65536
         /\ v = last.v /\ i = last.i /\ sp = last.sp
    ELSE ReportsFetchedWord

\* 8FFD has been fetched and reported, after a reset
C2_Witness ==
  /\ Stepped /\ called.reset /\ FetchedWord = <<143, 253>>
  /\ fault.msg = <<"unknown opcode: $", "8", "F", "F", "D">>

\* C3 as claimed: after load_program and reset, a step whose fetched word
\* belongs to a supported family runs to completion.
C3_Original ==
  (Stepped /\ called.take_rom /\ called.reset /\ InFamily(FetchedWord)) =>
    fault = NoFault

\* the ram indices the last call used through the program counter
PcAccesses == {a \in bus : a.via = "pc"}

\* the words that leave the program counter where the fetch put it
FallsThrough(w) ==
  \/ w[1] \div 16 \in {6, 7, 10}
  \/ w[1] \div 16 = 0 /\ w # <<0, 238>> /\ w # <<2, 48>>

\* C4: for every value of the 16-bit program counter, the fetch reads ram at
\* pc mod 4096 and (pc + 1) mod 4096 and nowhere outside the 4096 bytes, and
\* leaves pc advanced by 2 modulo 2^16.
C4_FetchMasked ==
  Stepped =>
    /\ PcAccesses =
         { Access("pc", "r", last.pc, last.pc % RAM_SIZE),
           Access("pc", "r", (last.pc + 1) % 65536, (last.pc + 1) % RAM_SIZE) }
    /\ \A a \in PcAccesses : a.idx \in 0..(RAM_SIZE - 1)
    /\ fault.kind # "index out of bounds" \/ InFamily(FetchedWord)
    /\ FallsThrough(FetchedWord) => (fault = NoFault /\ pc = (last.pc + 2) % 65536)

\* a fetch at 0xFFFE, where a RET of the stack word FF FE has put pc, has
\* read 0xFFE and 0xFFF and wrapped pc to 0
C4_Witness ==
  /\ Stepped /\ last.pc = 65534 /\ pc = 0 /\ fault = NoFault
  /\ Access("pc", "r", 65535, 4095) \in bus

\* the ram indices the last call used through the index register
IndexAccesses == {a \in bus : a.via = "i"}

\* C5 as claimed: every access an instruction makes through I goes to
\* (I + offset) mod 4096, inside the 4096 bytes.
C5_Original ==
  Stepped =>
    \A a \in IndexAccesses :
      /\ a.idx \in 0..(RAM_SIZE - 1)
      /\ \E offset \in 0..15 : a.idx = (last.i + offset) % RAM_SIZE

\* C6 as claimed: integer overflow never faults a step.
C6_Original ==
  fault.kind \notin {"attempt to add with overflow", "attempt to multiply with overflow"}

\* the memory image of the ROM file: the font, the program at 0x200, zeros
ImageByte(k) ==
  IF k < Len(FONT) THEN FONT[k + 1]
  ELSE IF k >= ROM_BASE /\ k - ROM_BASE < Len(rom) THEN rom[k - ROM_BASE + 1]
  ELSE 0

\* C7 as claimed: reset and load_program may be called in either order;
\* neither faults, and once both have been called memory holds the font at
\* 0x000-0x04F, the program at 0x200 upward and zeros elsewhere, 4096 bytes.
C7_Original ==
  /\ last.call \in {"take_rom", "reset"} => fault = NoFault
  /\ (last.call \in {"take_rom", "reset"} /\ called.take_rom /\ called.reset
        /\ fault = NoFault) =>
       /\ ram.len = RAM_SIZE
       /\ \A k \in 0..(ROM_BASE + Len(rom)) : VecGet(ram, k) = ImageByte(k)
       /\ \A k \in DOMAIN ram.at : ram.at[k] = ImageByte(k)
       /\ ram.fill = 0

\* C8: after reset on a machine with a loaded program, whatever ran before,
\* V0..VF, I, sp, DT, ST and the timer accumulator are 0, there is no timer
\* reference, pc = 0x200, each of the 64x32 pixels is unlit with phase 0, and
\* glyph d is at 5 * d.
C8_ResetState ==
  (last.call = "reset" /\ last.ram_len = RAM_SIZE) =>
    /\ fault = NoFault
    /\ \A k \in 0..15 : v[k] = 0
    /\ i = 0 /\ sp = 0 /\ dt = 0 /\ st = 0
    /\ timer_elapsed = 0 /\ timer_instant = "None"
    /\ pc = 512
    /\ screen.len = 64 * 32
    /\ \A k \in 0..(64 * 32 - 1) : VecGet(screen, k) = [lit |-> FALSE, phase |-> 0]
    /\ \A d \in 0..15 : \A r \in 0..4 : VecGet(ram, 5 * d + r) = FONT[5 * d + r + 1]
    /\ ram.len = RAM_SIZE

\* a reset of a machine with registers, index, stack, timers and pixels in use
C8_Witness ==
  /\ last.call = "reset" /\ last.ram_len = RAM_SIZE
  /\ last.v[0] = 9 /\ last.i = 5 /\ last.sp = 1 /\ last.dt > 0 /\ last.st > 0
  /\ last.timer_elapsed > 0 /\ last.timer_instant = "Some" /\ last.pc = 512
  /\ \E k \in DOMAIN last.screen.at : last.screen.at[k].lit
  /\ dt = 0 /\ pc = 512

\* the fetched word is 8xyN with this N
IsAlu(w, op) == w[1] \div 16 = 8 /\ w[2] % 16 = op

\* C9: ADD Vx, Vy leaves VF = 1 if Vx + Vy exceeds 255 and VF = 0 otherwise,
\* leaves (Vx + Vy) mod 256 in Vx when x is not 0xF, and leaves every other
\* register as it was.
C9_AddCarry ==
  (Stepped /\ IsAlu(FetchedWord, 4)) =>
    LET x == FetchedWord[1] % 16
        y == FetchedWord[2] \div 16
        sum == last.v[x] + last.v[y]
    IN  /\ fault = NoFault
        /\ v[15] = IF sum > 255 THEN 1 ELSE 0
        /\ x # 15 => v[x] = sum % 256
        /\ \A k \in 0..15 \ {x, 15} : v[k] = last.v[k]

\* ADD V1, VF with 255 + 1: the sum wraps to 0 and the carry is set; and
\* ADD VF, V1 leaves the carry, not the sum, in VF
C9_Witness ==
  /\ Stepped /\ IsAlu(FetchedWord, 4)
  /\ \/ /\ FetchedWord = <<129, 244>>
        /\ last.v[1] = 255 /\ last.v[15] = 1 /\ v[1] = 0 /\ v[15] = 1
     \/ /\ FetchedWord = <<143, 20>>
        /\ last.v[15] = 128 /\ last.v[1] = 1 /\ v[15] = 0

\* C10 as claimed: SUB and SUBN leave in VF the flag, 1 iff the minuend is
\* strictly greater than the subtrahend, for every x and y, and the
\* difference mod 256 in Vx when x is not 0xF.
C10_Original ==
  (Stepped /\ (IsAlu(FetchedWord, 5) \/ IsAlu(FetchedWord, 7))) =>
    LET x == FetchedWord[1] % 16
        y == FetchedWord[2] \div 16
        minuend == IF IsAlu(FetchedWord, 5) THEN last.v[x] ELSE last.v[y]
        subtrahend == IF IsAlu(FetchedWord, 5) THEN last.v[y] ELSE last.v[x]
    IN  /\ v[15] = IF minuend > subtrahend THEN 1 ELSE 0
        /\ x # 15 => v[x] = (minuend - subtrahend) % 256

\* C11 as claimed: SHR Vx and SHL Vx leave in VF the bit shifted out of the
\* pre-shift Vx (bit 0 for SHR, bit 7 for SHL) for every x, 0xF included,
\* leave floor(Vx / 2), or (2 * Vx) mod 256, in Vx when x is not 0xF, and
\* leave every other register, Vy included, as it was.
C11_Original ==
  (Stepped /\ (IsAlu(FetchedWord, 6) \/ IsAlu(FetchedWord, 14))) =>
    LET x == FetchedWord[1] % 16
        right == IsAlu(FetchedWord, 6)
    IN  /\ fault = NoFault
        /\ v[15] = IF right THEN last.v[x] % 2 ELSE last.v[x] \div 128
        /\ x # 15 => v[x] = IF right THEN last.v[x] \div 2 ELSE (2 * last.v[x]) % 256
        /\ \A k \in 0..15 \ {x, 15} : v[k] = last.v[k]

\* the 16-bit values pushed
StackValues == {255, 770, 65280, 65535}

\* the stack pointers pushed from: the ends of the range, the slots on both
\* sides of 0x200, and the slots in between by steps of 16
StackPointers == {0, 1, 126, 127, 128, 254, 255} \cup {16 * k + 7 : k \in 0..15}

\* the last step was a CALL or a RET
StackStep ==
  /\ Stepped /\ Len(last.opcode) = 2
  /\ (last.opcode = InsRET \/ last.opcode[1] \div 16 = 2)

\* the machine with the stack pointer at s
WithSp(s) == [Cur EXCEPT !.sp = s]

\* C12: push followed by pop returns the 16-bit value pushed and restores
\* the stack pointer, for every starting stack pointer 0..255 (255 included,
\* where the increment wraps to 0) and every value; and a RET executed in the
\* step after a CALL at address a leaves pc = a + 2 and the stack pointer as
\* it was before the CALL.
C12_PushPop ==
  /\ (StackStep /\ fault = NoFault) =>
       \A s \in StackPointers : \A value \in StackValues :
         LET pushed == push(WithSp(s), value)
         IN  /\ ~Faulted(pushed)
             /\ pushed.sp = (s + 1) % 256
             /\ pop_value(pushed) = value
             /\ ~Faulted(pop(pushed))
             /\ pop(pushed).sp = s
  /\ (StackStep /\ last.opcode = InsRET /\ last.prev.call = "run_next"
        /\ Len(last.prev.opcode) = 2 /\ last.prev.opcode[1] \div 16 = 2) =>
       /\ fault = NoFault
       /\ pc = (last.prev.pc + 2) % 65536
       /\ sp = last.prev.sp

\* the CALL at 0x300 pushed with sp = 255, the RET at 0x206 popped with
\* sp = 0: pc is 0x302 and the stack pointer is 255 again
C12_Witness ==
  /\ Stepped /\ last.opcode = InsRET /\ last.pc = 518
  /\ last.prev.call = "run_next" /\ last.prev.opcode = InsCALL(518)
  /\ last.prev.pc = 768 /\ last.prev.sp = 255 /\ last.sp = 0
  /\ sp = 255 /\ pc = 770 /\ fault = NoFault

\* the cells of the grid
Cells == 0..(64 * 32 - 1)

\* the cell at column (x + col) mod 64, row (y + row) mod 32
CellAt(x, y, row, col) == ((y + row) % 32) * 64 + ((x + col) % 64)

\* the last step was a DRW that ran to completion
Drew ==
  /\ Stepped /\ fault = NoFault
  /\ Len(last.opcode) = 2 /\ last.opcode[1] \div 16 = 13

\* the operands of the DRW of the last step: Vx, Vy and n
DrawX == last.v[last.opcode[1] % 16]
DrawY == last.v[last.opcode[2] \div 16]
DrawN == last.opcode[2] % 16

\* bit col (most significant first) of sprite byte row
SpriteBit(row, col) == (VecGet(ram, last.i + row) \div (2 ^ (7 - col))) % 2

\* the rows and columns of the sprite
SpriteBits == (0..(DrawN - 1)) \X (0..7)

\* the last two steps were DRW instructions with the same Vx, Vy, n and I
DrewTwice ==
  /\ Drew /\ last.prev.call = "run_next" /\ last.prev.opcode = last.opcode
  /\ last.prev.v[last.opcode[1] % 16] = DrawX
  /\ last.prev.v[last.opcode[2] \div 16] = DrawY
  /\ last.prev.i = last.i

\* C13: a sprite drawn twice (same Vx, Vy, n, I and bytes, no clear in
\* between) leaves the lit state of every pixel of the grid as it was before
\* the first draw, and after the second draw VF = 1 iff the sprite has a set
\* bit over a pixel that was unlit before the first draw, for every origin.
C13_DrawTwice ==
  DrewTwice =>
    /\ \A c \in Cells : VecGet(screen, c).lit = VecGet(last.prev.screen, c).lit
    /\ v[15] = IF \E b \in SpriteBits :
                     /\ SpriteBit(b[1], b[2]) = 1
                     /\ ~VecGet(last.prev.screen, CellAt(DrawX, DrawY, b[1], b[2])).lit
               THEN 1 ELSE 0

\* the 5-row glyph drawn twice at (2, 0) over the glyph at (0, 0): pixels
\* that were lit before the pair are lit again, and VF = 1
C13_Witness ==
  /\ DrewTwice /\ DrawX = 2 /\ DrawY = 0 /\ DrawN = 5
  /\ VecGet(last.prev.screen, 0).lit /\ VecGet(screen, 0).lit
  /\ VecGet(last.prev.screen, 3).lit /\ ~VecGet(last.screen, 3).lit
  /\ VecGet(screen, 3).lit
  /\ v[15] = 1

\* the cells under a set bit of the sprite of the last step
SetCells ==
  { CellAt(DrawX, DrawY, b[1], b[2]) : b \in {q \in SpriteBits : SpriteBit(q[1], q[2]) = 1} }

\* C14: a DRW Vx, Vy, n that runs to completion XORs bit j (most significant
\* first) of sprite byte i into the cell at column (Vx + j) mod 64, row
\* (Vy + i) mod 32, leaves the lit state of every other cell unchanged, and
\* leaves VF = 1 iff a cell went from lit to unlit, else 0; with n = 0 no
\* cell changes and VF = 0.
C14_DrawPost ==
  Drew =>
    LET flipped == SetCells
    IN  /\ \A c \in Cells :
             VecGet(screen, c).lit = (VecGet(last.screen, c).lit # (c \in flipped))
        /\ v[15] = IF \E c \in flipped : VecGet(last.screen, c).lit THEN 1 ELSE 0
        /\ DrawN = 0 => (v[15] = 0 /\ \A c \in Cells :
                            VecGet(screen, c).lit = VecGet(last.screen, c).lit)

\* the glyph 0 drawn at Vx = Vy = 255: its first row F0 lights columns 63, 0,
\* 1, 2 of row 31, its second row 90 columns 63 and 2 of row 0
C14_Witness ==
  /\ Drew /\ DrawX = 255 /\ DrawY = 255 /\ DrawN = 5 /\ last.i = 0
  /\ \A c \in Cells : ~VecGet(last.screen, c).lit
  /\ {c \in Cells : VecGet(screen, c).lit /\ c \div 64 \in {31, 0}}
       = {31 * 64 + 63, 31 * 64, 31 * 64 + 1, 31 * 64 + 2, 63, 2}
  /\ v[15] = 0

\* the last step fetched Fx15 (kk = 21) or Fx18 (kk = 24)
Fetched(kk) ==
  Len(last.opcode) = 2 /\ last.opcode[1] \div 16 = 15 /\ last.opcode[2] = kk

\* the accumulated time reached one period in the last step
ReachedPeriod ==
  last.timer_instant = "Some" /\ last.timer_elapsed + last.elapsed >= 16666666

\* a timer that held t before a step, after the step's timer update
CountedDown(t) == IF ReachedPeriod /\ t > 0 THEN t - 1 ELSE t

\* C15: with every clock reading below 16,666,666 ns, DT and ST each go
\* down by exactly 1 (when non-zero) in precisely the steps in which the
\* accumulated time reaches 16,666,666 ns, the accumulator keeps the
\* remainder and is below one period after every step, a timer at 0 stays
\* 0, and the first step after reset adds no time and decrements nothing.
C15_TimerCadence ==
  /\ timer_elapsed < 16666666
  /\ dt \in 0..255 /\ st \in 0..255
  /\ (Stepped /\ fault = NoFault) =>
       /\ last.ticked = ReachedPeriod
       /\ timer_elapsed =
            last.timer_elapsed + last.elapsed - (IF ReachedPeriod THEN 16666666 ELSE 0)
       /\ ~Fetched(21) => dt = CountedDown(last.dt)
       /\ ~Fetched(24) => st = CountedDown(last.st)
       /\ (called.reset /\ steps = 1) =>
            /\ last.timer_instant = "None" /\ last.elapsed = 0
            /\ timer_elapsed = 0 /\ timing = [total |-> 0, ticks |-> 0]
            /\ ~Fetched(21) => dt = last.dt
            /\ ~Fetched(24) => st = last.st

\* two readings of half a period: the second reaches 16,666,666 ns exactly,
\* DT goes from 2 to 1 and the accumulator keeps 0
C15_Witness ==
  /\ Stepped /\ called.reset /\ fault = NoFault
  /\ last.timer_elapsed = 8333333 /\ last.elapsed = 8333333
  /\ last.ticked /\ last.dt = 2 /\ dt = 1 /\ timer_elapsed = 0

\* C16 as claimed: whatever the clock readings, several periods in one step
\* included, while DT is counting (it was and is above 0) the number of
\* timer decrements made when the clock has measured a total of T ns since
\* the reset is floor(T / 16,666,666), so that the timers depend on the time
\* elapsed and not on the number of steps it is divided over.
C16_Original ==
  (Stepped /\ called.reset /\ fault = NoFault /\ last.dt > 0 /\ dt > 0) =>
    timing.ticks = timing.total \div 16666666

\* the last call returned a frame
Rendered ==
  last.call = "screen_as_framebuffer" /\ fault = NoFault /\ screen.len = 64 * 32

\* the opacity byte and the first luma byte of the group a pixel renders to
OpacityByte(p) == RenderPixel(p)[4]
LumaByte(p) == RenderPixel(p)[1]

\* C17: the frame holds for each pixel the group the pixel renders to; and
\* over a step that leaves a pixel unlit, the opacity byte it renders to is
\* strictly smaller after the step than before it while the phase is below
\* 1.0 after the step; when the phase has reached 1.0 the pixel renders with
\* luma 0, and from then on the group it renders to no longer changes.
C17_FadeOut ==
  /\ Rendered =>
       /\ framebuffer.len = 64 * 32
       /\ \A c \in Cells : VecGet(framebuffer, c) = RenderPixel(VecGet(screen, c))
  /\ (Stepped /\ fault = NoFault /\ last.screen.len = 64 * 32) =>
       \A c \in Cells :
         LET old == VecGet(last.screen, c)
             new == VecGet(screen, c)
         IN  (~old.lit /\ ~new.lit) =>
               IF new.phase < PHASE_ONE
               THEN OpacityByte(new) < OpacityByte(old)
               ELSE /\ LumaByte(new) = 0
                    /\ old.phase >= PHASE_ONE => RenderPixel(new) = RenderPixel(old)

\* the frame asked for after 6 steps: the pixel at (0, 0), turned off by the
\* second draw 4 steps before, is bright with opacity 153, and a pixel no
\* draw has touched, 6 steps after the reset, with opacity 102
C17_Witness ==
  /\ Rendered /\ rom = FadeRom /\ steps = 6
  /\ last.prev.call = "run_next"
  /\ VecGet(screen, 0) = [lit |-> FALSE, phase |-> 4 * 13421773]
  /\ VecGet(framebuffer, 0) = <<255, 255, 255, 153>>
  /\ VecGet(framebuffer, 64 * 32 - 1) = <<255, 255, 255, 102>>

\* the register the Fx__ instruction of the last step names
FetchedX == last.opcode[1] % 16

\* C18: within a step the timer update comes before the instruction and the
\* phase tick before the draw. LD Vx, DT reads the DT the timer update of
\* its step has left; a value written by LD DT, Vx or LD ST, Vx is not
\* decremented in the step that writes it; a pixel a DRW turns off ends the
\* step with phase 0 and a pixel it turns on with phase 1.0; every step
\* fetches exactly one instruction word, at pc and pc + 1, and a step that
\* completes leaves a timer reference.
C18_StepOrder ==
  (Stepped /\ fault = NoFault) =>
    /\ Fetched(7) => v[FetchedX] = CountedDown(last.dt) /\ dt = CountedDown(last.dt)
    /\ Fetched(21) => dt = last.v[FetchedX]
    /\ Fetched(24) => st = last.v[FetchedX]
    /\ Drew =>
         \A c \in Cells :
           LET old == VecGet(last.screen, c)
               new == VecGet(screen, c)
           IN  /\ (old.lit /\ ~new.lit) => new.phase = 0
               /\ (~old.lit /\ new.lit) => new.phase = PHASE_ONE
    /\ PcAccesses =
         { Access("pc", "r", last.pc, last.pc % RAM_SIZE),
           Access("pc", "r", (last.pc + 1) % 65536, (last.pc + 1) % RAM_SIZE) }
    /\ Len(last.opcode) = 2
    /\ timer_instant = "Some"

\* LD V1, DT in a step whose timer update took DT from 2 to 1: V1 = 1
C18_Witness ==
  /\ Stepped /\ fault = NoFault /\ called.reset
  /\ Fetched(7) /\ FetchedX = 1 /\ last.ticked /\ last.dt = 2
  /\ v[1] = 1 /\ dt = 1

\* the cells the sprite of the last step covers, whatever its bits
CoveredCells == { CellAt(DrawX, DrawY, b[1], b[2]) : b \in SpriteBits }

\* C19: a DRW that runs to completion leaves every cell the sprite covers
\* with phase 1.0 if the cell is lit after the XOR, with phase 0.0 if it went
\* from lit to unlit, and with the phase it had (after the phase tick of the
\* step) if it was unlit and stays unlit; a cell the sprite does not cover
\* keeps its lit state and that phase.
C19_DrawPhases ==
  Drew =>
    LET covered == CoveredCells
    IN  \A c \in Cells :
          LET old == DecayPixel(VecGet(last.screen, c))
              new == VecGet(screen, c)
          IN  IF c \in covered
              THEN /\ new.lit => new.phase = PHASE_ONE
                   /\ (old.lit /\ ~new.lit) => new.phase = 0
                   /\ (~old.lit /\ ~new.lit) => new.phase = old.phase
              ELSE new = old

\* the glyph 0 drawn at (2, 0) over the glyph 0 at (0, 0), in the third
\* step: cell 2 goes off with phase 0, cell 4 goes on with phase 1.0, cell 6,
\* under a zero bit, keeps the phase of three ticks, cell 0 is not covered
C19_Witness ==
  /\ Drew /\ DrawX = 2 /\ DrawY = 0 /\ DrawN = 5 /\ steps = 3
  /\ VecGet(last.screen, 2).lit /\ VecGet(screen, 2) = [lit |-> FALSE, phase |-> 0]
  /\ ~VecGet(last.screen, 4).lit /\ VecGet(screen, 4) = [lit |-> TRUE, phase |-> PHASE_ONE]
  /\ 6 \in CoveredCells /\ VecGet(screen, 6) = [lit |-> FALSE, phase |-> 40265320]
  /\ 0 \notin CoveredCells /\ VecGet(screen, 0) = [lit |-> TRUE, phase |-> PHASE_ONE]

\* C20 as stated: the phase of every pixel is between 0 and 1 inclusive in
\* every reachable state, and a pixel whose phase was set to 0 (here by reset,
\* for the cell of the last row and column, which the fade program never
\* draws on) has phase exactly 1.0 after 10 further steps and keeps it.
C20_Original ==
  /\ \A c \in Cells : c < screen.len =>
        VecGet(screen, c).phase \in 0..PHASE_ONE
  /\ (rom = FadeRom /\ called.reset /\ fault = NoFault /\ steps >= 10) =>
        VecGet(screen, 64 * 32 - 1).phase = PHASE_ONE

\* the bytes the last call wrote through the stack pointer
StackWrites == {a \in bus : a.via = "sp" /\ a.op = "w"}

\* C21 as stated: every byte a push writes lies in the 256-byte window
\* 0x100-0x1FF, below the program image at 0x200, and 128 consecutive pushes
\* from sp = 0 after reset (128 steps of the program that calls itself) bring
\* the stack pointer back to 0.
C21_Original ==
  /\ \A a \in StackWrites : a.idx \in STACK_BASE..(ROM_BASE - 1)
  /\ (rom = CallRom /\ Running /\ fault = NoFault /\ steps = 128) => sp = 0

\* the cells no draw of the program has lit since the reset: all of them
\* under BlankRom, those outside the 8 x 5 glyph at (0, 0) under FadeRom
Undrawn ==
  IF rom = FadeRom
  THEN Cells \ { CellAt(0, 0, row, col) : row \in 0..4, col \in 0..7 }
  ELSE Cells

\* C22 as stated: a pixel that no draw has lit since the last reset or
\* clear-screen renders with luma 0 in its three luma bytes, whatever the
\* number of steps; so the frame rendered right after reset, or right after
\* the clear-screen of a blank display, is dark everywhere.
C22_Original ==
  (Rendered /\ called.reset /\ rom \in {BlankRom, FadeRom}) =>
    \A c \in Undrawn :
      LET group == VecGet(framebuffer, c)
      IN  group[1] = 0 /\ group[2] = 0 /\ group[3] = 0

====
